---- MODULE Spec2Model ----
(***************************************************************************)
(* Model of ddb_local (src/ddb_local/__init__.py): the LocalDynamoDB       *)
(* wrapper that installs DynamoDBLocal, spawns it as a child process,      *)
(* waits until it is reachable and shuts it down.                          *)
(*                                                                         *)
(* The program is single threaded: one call (start, stop, __enter__,       *)
(* __exit__) runs at a time and `pc` is its position.  The environment     *)
(* (the child processes) moves between the steps of a call.                *)
(***************************************************************************)
EXTENDS Integers, Sequences, FiniteSets, TLC

\* ------------------------------------------------------------------ bounds
\* Number of child processes that are ever spawned in one run.
MaxSpawns == 2
\* Number of members of a downloaded archive.
MaxMembers == 2
\* Number of children spawned in a run of SpecConfigured, where the
\* constructor's arguments vary.
MaxConfSpawns == 1

\* ------------------------------------------------------- program constants
DEFAULT_REACHABLE_TIMEOUT == 3
DEFAULT_KILL_WAIT_TIME == 5
DEFAULT_PORT == 8000
DEFAULT_DOWNLOAD_URL ==
    "https://s3.us-west-2.amazonaws.com/dynamodb-local/dynamodb_local_latest.tar.gz"

\* ------------------------------------------------------------------- paths
\* A path is a sequence of one-character strings.
\* DEFAULT_UNPACK_DIR: os.path.join(tempfile.gettempdir(), "ddb_local"),
\* here "/t/d".
DEFAULT_UNPACK_DIR == <<"/", "t", "/", "d">>
\* The working directory of the process when start is called, "/w".
OrigCwd == <<"/", "w">>
\* The working directory of a process whose directory was removed under
\* it: os.getcwd() raises FileNotFoundError.
DeletedCwd == <<"(", "d", "e", "l", "e", "t", "e", "d", ")">>

\* str.startswith
StartsWith(s, pre) ==
    /\ Len(pre) <= Len(s)
    /\ SubSeq(s, 1, Len(pre)) = pre

\* str.split("/"): the components between the slashes, empty ones included.
RECURSIVE SplitFrom(_, _, _)
SplitFrom(p, i, comp) ==
    IF i > Len(p) THEN <<comp>>
    ELSE IF p[i] = "/" THEN <<comp>> \o SplitFrom(p, i + 1, <<>>)
    ELSE SplitFrom(p, i + 1, Append(comp, p[i]))

Split(p) == SplitFrom(p, 1, <<>>)

\* "/".join(comps)
RECURSIVE JoinComps(_)
JoinComps(comps) ==
    IF Len(comps) = 0 THEN <<>>
    ELSE IF Len(comps) = 1 THEN comps[1]
    ELSE comps[1] \o <<"/">> \o JoinComps(Tail(comps))

DotDot == <<".", ".">>

\* posixpath.normpath: the loop over the components.
RECURSIVE NormComps(_, _, _, _)
NormComps(comps, i, newComps, initialSlashes) ==
    IF i > Len(comps) THEN newComps
    ELSE LET comp == comps[i] IN
         IF comp = <<>> \/ comp = <<".">>
         THEN NormComps(comps, i + 1, newComps, initialSlashes)
         ELSE IF \/ comp # DotDot
                 \/ (initialSlashes = 0 /\ Len(newComps) = 0)
                 \/ (Len(newComps) > 0 /\ newComps[Len(newComps)] = DotDot)
         THEN NormComps(comps, i + 1, Append(newComps, comp), initialSlashes)
         ELSE IF Len(newComps) > 0
         THEN NormComps(comps, i + 1, SubSeq(newComps, 1, Len(newComps) - 1),
                        initialSlashes)
         ELSE NormComps(comps, i + 1, newComps, initialSlashes)

\* posixpath.normpath
normpath(path) ==
    IF path = <<>> THEN <<".">>
    ELSE LET initialSlashes ==
                 IF ~StartsWith(path, <<"/">>) THEN 0
                 ELSE IF StartsWith(path, <<"/", "/">>)
                         /\ ~StartsWith(path, <<"/", "/", "/">>) THEN 2
                 ELSE 1
             body == JoinComps(NormComps(Split(path), 1, <<>>, initialSlashes))
             res == [k \in 1..initialSlashes |-> "/"] \o body
         IN IF res = <<>> THEN <<".">> ELSE res

\* posixpath.isabs
isabs(path) == StartsWith(path, <<"/">>)

\* posixpath.join of two paths
join(a, b) ==
    IF isabs(b) THEN b
    ELSE IF a = <<>> \/ a[Len(a)] = "/" THEN a \o b
    ELSE a \o <<"/">> \o b

\* posixpath.abspath when the working directory is wd
abspath(wd, path) == normpath(IF isabs(path) THEN path ELSE join(wd, path))

\* os.path.commonprefix of two strings: their longest common prefix,
\* character by character.
RECURSIVE commonprefix(_, _)
commonprefix(s1, s2) ==
    IF s1 = <<>> \/ s2 = <<>> \/ s1[1] # s2[1] THEN <<>>
    ELSE <<s1[1]>> \o commonprefix(Tail(s1), Tail(s2))

\* is_within_directory(directory, target), called while the working
\* directory is wd.
is_within_directory(wd, directory, target) ==
    LET abs_directory == abspath(wd, directory)
        abs_target == abspath(wd, target)
        prefix == commonprefix(abs_directory, abs_target)
    IN prefix = abs_directory

\* True containment of absolute normalised paths: p is dir or a descendant.
Contains(dir, p) ==
    \/ p = dir
    \/ StartsWith(p, IF dir[Len(dir)] = "/" THEN dir ELSE dir \o <<"/">>)

\* Names that a member of the downloaded archive can have:
\* "x", "../de/x" (a sibling of /t/d whose path starts with "/t/d"),
\* "../x" and "/e".
MemberNames ==
    { <<"x">>,
      <<".", ".", "/", "d", "e", "/", "x">>,
      <<".", ".", "/", "x">>,
      <<"/", "e">> }

RECURSIVE SeqsUpTo(_, _)
SeqsUpTo(S, n) ==
    IF n = 0 THEN {<<>>}
    ELSE LET shorter == SeqsUpTo(S, n - 1)
         IN shorter \cup {Append(s, m) : s \in {t \in shorter : Len(t) = n - 1}, m \in S}

\* The archives a download can deliver.
Archives == SeqsUpTo(MemberNames, MaxMembers)

\* ------------------------------------------------------------------- state
Inst == {"a", "b"}
Pids == 1..MaxSpawns
\* ddb_process = NoProcess models self.ddb_process = None.
NoProcess == 0

StartOps == {"start", "enter"}
StopOps == {"stop", "exit"}

VARIABLES
    port,          \* self.port of each instance
    ddb_process,   \* self.ddb_process: NoProcess or the pid of a Popen object
    java_bin,      \* self.java_bin
    inWith,        \* the body of a `with` statement on the instance is active
    pc,            \* position of the running call, "idle" between calls
    cur,           \* the instance of the running (or the last) call
    op,            \* the running (or the last) call
    result,        \* how the last call ended: "ok" or the error it raised
    child,         \* the child processes and their Popen objects
    nspawn,        \* number of children spawned so far
    unpack,        \* what is at unpack_dir: "absent", "dir" or "file"
    files,         \* absolute paths written by tf.extract
    cwd,           \* working directory of the process
    archive,       \* members of the archive being extracted
    idx,           \* index of the next member
    elapsed,       \* time spent in the running readiness poll or wait()
    steps,         \* the stages the running (or last) call went through
    spawned,       \* the child the running (or last) call spawned, or 0
    gotResponse,   \* a GET of the running (or last) call got a response
    exitedAtCheck, \* the child had exited when its returncode was checked
    sigs,          \* the signals the running (or last) call sent
    handleAtCall,  \* self.ddb_process when the running (or last) call began
    constructed,   \* the instance has been constructed
    in_memory,     \* self.in_memory
    db_path,       \* self.db_path: {} for None, else {path}
    shared_db,     \* self.shared_db
    extra_args,    \* self.extra_args
    source_url,    \* self.source_url
    urlArg,        \* the source_url argument the constructor was given
    dbdirs,        \* the directories that exist among the db_path candidates
    ctor,          \* the last call of the constructor and how it ended
    cur_cwd,       \* the local cur_cwd of _ensure_installed
    popenArgs,     \* the argument vector of the Popen of the running call
    requestedUrl,  \* the URL the running (or last) call requested, or ""
    javaEnv        \* what the last _ensure_java_exists found and tried

vars == <<port, ddb_process, java_bin, inWith, pc, cur, op, result, child,
          nspawn, unpack, files, cwd, archive, idx, elapsed, steps,
          spawned, gotResponse, exitedAtCheck, sigs, handleAtCall,
          constructed, in_memory, db_path, shared_db, extra_args, source_url,
          urlArg, dbdirs, ctor, cur_cwd, popenArgs, requestedUrl, javaEnv>>

\* What only the constructor changes.
ctorVars == <<constructed, in_memory, db_path, shared_db, extra_args,
              source_url, urlArg, dbdirs, ctor>>

cfgVars == <<port>>
ghostVars == <<spawned, gotResponse, exitedAtCheck, sigs, handleAtCall>>
installVars == <<archive, idx>>
fsVars == <<unpack, files, cwd>>

\* A child: st is "none" (not spawned yet), "starting" (running, not yet
\* listening), "listening" or "exited"; term and kill: SIGTERM or SIGKILL has
\* been sent to it and it has not exited yet; returncode: the returncode of
\* its Popen object is not None (poll() or wait() has seen the exit);
\* ready: the start that spawned it returned normally.
NoChild == [st |-> "none", port |-> DEFAULT_PORT, term |-> FALSE,
            kill |-> FALSE, returncode |-> FALSE, ready |-> FALSE]

Alive(c) == child[c].st \in {"starting", "listening"}

\* Some process listens on port p.
Listening(p) ==
    \E c \in Pids : child[c].st = "listening" /\ child[c].port = p

\* The record of the constructor before it is called.
NoCtor == [inst |-> "a", url |-> DEFAULT_DOWNLOAD_URL, in_memory |-> FALSE,
           db_path |-> {}, result |-> "none", dirsBefore |-> {}]

\* The record of _ensure_java_exists before it is called.
NoJavaEnv == [javaHome |-> "unset", pathJava |-> FALSE, tried |-> <<>>]

\* The fields LocalDynamoDB() sets when it is given no argument but the
\* port, and what no constructor argument decides.
ConfigInit ==
    /\ in_memory = [i \in Inst |-> FALSE]
    /\ db_path = [i \in Inst |-> {}]
    /\ shared_db = [i \in Inst |-> FALSE]
    /\ extra_args = [i \in Inst |-> <<>>]
    /\ source_url = [i \in Inst |-> DEFAULT_DOWNLOAD_URL]
    /\ urlArg = [i \in Inst |-> DEFAULT_DOWNLOAD_URL]
    /\ dbdirs = {}
    /\ ctor = NoCtor
    /\ cur_cwd = OrigCwd
    /\ popenArgs = <<>>
    /\ requestedUrl = ""
    /\ javaEnv = NoJavaEnv

\* The state after both instances were constructed as LocalDynamoDB().
Init ==
    /\ port = [i \in Inst |-> DEFAULT_PORT]
    /\ ddb_process = [i \in Inst |-> NoProcess]
    /\ java_bin = [i \in Inst |-> "None"]
    /\ inWith = [i \in Inst |-> FALSE]
    /\ pc = "idle"
    /\ cur = "a"
    /\ op = "none"
    /\ result = "ok"
    /\ child = [c \in Pids |-> NoChild]
    /\ nspawn = 0
    /\ unpack \in {"absent", "dir", "file"}
    /\ files = {}
    /\ cwd = OrigCwd
    /\ archive = <<>>
    /\ idx = 0
    /\ elapsed = 0
    /\ steps = <<>>
    /\ spawned = 0
    /\ gotResponse = FALSE
    /\ exitedAtCheck = FALSE
    /\ sigs = <<>>
    /\ handleAtCall = NoProcess
    /\ constructed = [i \in Inst |-> TRUE]
    /\ ConfigInit

\* ------------------------------------------------------------- constructor
MirrorUrl == "https://mirror.example/dynamodb_local_latest.tar.gz"

\* The values of the constructor's arguments: source_url; db_path, None
\* ({}), "", "p" (a relative path that is absent or a directory) and "f"
\* (a relative path at which a regular file exists); extra_args.
Urls == {DEFAULT_DOWNLOAD_URL, MirrorUrl}
\* The ports the system gives to a socket bound to port 0.
EphemeralPorts == {49152, 49153}
\* The values of the port argument.
Ports == {DEFAULT_PORT, 49152}
DbPaths == {{}, {<<>>}, {<<"p">>}, {<<"f">>}}
ExtraArgs == {<<>>, <<"-cors", "*">>}

\* A regular file exists at the absolute path p: in every directory, at
\* the name "f".
IsFile(p) == p # <<>> /\ p[Len(p)] = "f"

\* __init__: self.source_url = DEFAULT_DOWNLOAD_URL
StoredUrl(url) == DEFAULT_DOWNLOAD_URL

\* __init__: `if db_path:`, true of a path that is neither None nor "".
DbPathGiven(dbPath) == dbPath # {} /\ dbPath # {<<>>}

\* A mutant of MakedirsError: a file at the path is not noticed.
MakedirsErrorDeniedOnly(p, denied) ==
    IF denied THEN "makedirs_error" ELSE "none"

\* os.makedirs(p, exist_ok=True): the error it raises, "none" when it
\* returns.  denied: the directory cannot be made or reached (a parent
\* cannot be written or searched), an OSError such as PermissionError;
\* FileExistsError when p exists and is not a directory.
MakedirsError(p, denied) ==
    IF denied THEN "makedirs_error"
    ELSE IF IsFile(p) THEN "file_exists"
    ELSE "none"

\* A mutant of Conflict: the test asks for the truth of db_path, as the
\* test before it does.
ConflictIfTruthy(inMemory, dbPath) == inMemory /\ DbPathGiven(dbPath)

\* __init__: `if in_memory and db_path is not None`
Conflict(inMemory, dbPath) == inMemory /\ dbPath # {}

\* LocalDynamoDB(port=portNo, source_url=url, in_memory=inMemory,
\* db_path=dbPath, shared_db=sharedDb, extra_args=extraArgs) for the
\* instance i.  os.path.abspath of a relative path calls os.getcwd(), which
\* raises when the working directory was removed; os.makedirs raises as
\* MakedirsError tells.
Construct(i, portNo, url, inMemory, dbPath, sharedDb, extraArgs) ==
    /\ pc = "idle"
    /\ ~constructed[i]
    /\ \E denied \in BOOLEAN :
       LET given == DbPathGiven(dbPath)
           abs == IF given THEN abspath(cwd, CHOOSE d \in dbPath : TRUE)
                  ELSE <<>>
           err == IF ~given THEN "none"
                  ELSE IF cwd = DeletedCwd THEN "getcwd_error"
                  ELSE MakedirsError(abs, denied)
           made == given /\ err = "none"
           res == IF err # "none" THEN err
                  ELSE IF Conflict(inMemory, dbPath) THEN "conflict"
                  ELSE "ok"
       IN /\ dbdirs' = IF made THEN dbdirs \cup {abs} ELSE dbdirs
          /\ ctor' = [inst |-> i, url |-> url, in_memory |-> inMemory,
                      db_path |-> dbPath, result |-> res,
                      dirsBefore |-> dbdirs]
          /\ IF res = "ok"
             THEN /\ constructed' = [constructed EXCEPT ![i] = TRUE]
                  /\ port' = [port EXCEPT ![i] = portNo]
                  /\ source_url' = [source_url EXCEPT ![i] = StoredUrl(url)]
                  /\ urlArg' = [urlArg EXCEPT ![i] = url]
                  /\ in_memory' = [in_memory EXCEPT ![i] = inMemory]
                  /\ db_path' = [db_path EXCEPT ![i] =
                                    IF given THEN {abs} ELSE {}]
                  /\ shared_db' = [shared_db EXCEPT ![i] = sharedDb]
                  /\ extra_args' = [extra_args EXCEPT ![i] = extraArgs]
             ELSE UNCHANGED <<constructed, port, source_url, urlArg,
                              in_memory, db_path, shared_db, extra_args>>
    /\ UNCHANGED <<ddb_process, java_bin, inWith, pc, cur, op, result,
                   child, nspawn, unpack, files, cwd, archive, idx, elapsed,
                   steps, spawned, gotResponse, exitedAtCheck, sigs,
                   handleAtCall, cur_cwd, popenArgs, requestedUrl, javaEnv>>

\* create_new_inmemory_ddb() for the instance i: a socket is bound to port
\* 0 and closed, and the port the system gave it, on which no process
\* listens at that time, is the port of LocalDynamoDB(port=port,
\* in_memory=True).
CreateNewInmemoryDdb(i) ==
    \E p \in EphemeralPorts :
        /\ ~Listening(p)
        /\ Construct(i, p, DEFAULT_DOWNLOAD_URL, TRUE, {}, FALSE, <<>>)

\* ------------------------------------------------------- calls by the client
\* A call begins: the records of the previous call are reset.
Begin(i, o, first) ==
    /\ pc = "idle"
    /\ constructed[i]
    /\ popenArgs' = <<>>
    /\ requestedUrl' = ""
    /\ javaEnv' = NoJavaEnv
    /\ pc' = first
    /\ cur' = i
    /\ op' = o
    /\ result' = "running"
    /\ steps' = <<first>>
    /\ spawned' = 0
    /\ gotResponse' = FALSE
    /\ exitedAtCheck' = FALSE
    /\ sigs' = <<>>
    /\ handleAtCall' = ddb_process[i]
    /\ elapsed' = 0
    /\ ctor' = NoCtor
    /\ UNCHANGED <<constructed, in_memory, db_path, shared_db, extra_args,
                   source_url, urlArg, dbdirs, cur_cwd, port, ddb_process,
                   java_bin, child, nspawn, unpack, files, cwd, archive, idx>>

\* ddb.start()
CallStart(i) ==
    /\ nspawn < MaxSpawns
    /\ Begin(i, "start", "port")
    /\ UNCHANGED inWith

\* ddb.stop()
CallStop(i) ==
    /\ Begin(i, "stop", "shutdown")
    /\ UNCHANGED inWith

\* `with ddb:` calls __enter__, which calls start.
WithEnter(i) ==
    /\ ~inWith[i]
    /\ nspawn < MaxSpawns
    /\ Begin(i, "enter", "port")
    /\ UNCHANGED inWith

\* The body of `with ddb:` ends (normally or by an exception): __exit__,
\* which calls stop.
WithExit(i) ==
    /\ inWith[i]
    /\ Begin(i, "exit", "shutdown")
    /\ inWith' = [inWith EXCEPT ![i] = FALSE]

\* The running call raises: the exception propagates to the client.  When
\* __enter__ raises, the `with` statement does not call __exit__.
Raise(kind) ==
    /\ pc' = "idle"
    /\ result' = kind
    /\ elapsed' = 0
    /\ UNCHANGED <<cur, op, inWith, steps>>

\* The running call returns.  After __enter__ the body of the `with` runs.
Return ==
    /\ pc' = "idle"
    /\ result' = "ok"
    /\ elapsed' = 0
    /\ inWith' = IF op = "enter" THEN [inWith EXCEPT ![cur] = TRUE] ELSE inWith
    /\ UNCHANGED <<cur, op, steps>>

\* The running call goes on to the stage `next`.
Goto(next) ==
    /\ pc' = next
    /\ steps' = Append(steps, next)
    /\ UNCHANGED <<cur, op, result, inWith, elapsed>>

\* ------------------------------------------------------------------- start
\* A mutant of BindSucceeds: the port check never fails.
BindSucceedsAlways(p) == TRUE

\* s.bind(("localhost", port)) with SO_REUSEADDR: fails when a process
\* listens on the port.
BindSucceeds(p) == ~Listening(p)

\* _ensure_port_free
EnsurePortFree ==
    /\ pc = "port"
    /\ IF BindSucceeds(port[cur])
       THEN Goto("java")
       ELSE Raise("port")
    /\ UNCHANGED <<ctorVars, cur_cwd, popenArgs, requestedUrl, javaEnv,
                   port, ddb_process, java_bin, child, nspawn, unpack,
                   files, cwd, archive, idx, spawned, gotResponse,
                   exitedAtCheck, sigs, handleAtCall>>

\* A mutant of FindJava: a JAVA_HOME whose java fails is fatal.
FindJavaOverrideOnly(javaHome, pathJava) ==
    IF javaHome = "good" THEN "JAVA_HOME/bin/java"
    ELSE IF javaHome = "bad" THEN "None"
    ELSE IF pathJava THEN "java"
    ELSE "None"

\* What _ensure_java_exists finds.  javaHome is "unset" when JAVA_HOME is
\* not in the environment, "good" when $JAVA_HOME/bin/java -version runs
\* and "bad" when it fails; pathJava tells whether `java -version` runs.
\* "None" stands for the exception.
FindJava(javaHome, pathJava) ==
    IF javaHome = "good" THEN "JAVA_HOME/bin/java"
    ELSE IF pathJava THEN "java"
    ELSE "None"

\* The lookups _ensure_java_exists runs, in their order: "JAVA_HOME" is
\* $JAVA_HOME/bin/java -version, "PATH" is java -version.
JavaTried(javaHome) ==
    IF javaHome = "unset" THEN <<"PATH">>
    ELSE IF javaHome = "good" THEN <<"JAVA_HOME">>
    ELSE <<"JAVA_HOME", "PATH">>

\* _ensure_java_exists
EnsureJavaExists ==
    /\ pc = "java"
    /\ \E javaHome \in {"unset", "good", "bad"}, pathJava \in BOOLEAN :
         LET found == FindJava(javaHome, pathJava) IN
         /\ javaEnv' = [javaHome |-> javaHome, pathJava |-> pathJava,
                        tried |-> JavaTried(javaHome)]
         /\ IF found # "None"
            THEN /\ java_bin' = [java_bin EXCEPT ![cur] = found]
                 /\ Goto("install")
            ELSE /\ UNCHANGED java_bin
                 /\ Raise("java")
    /\ UNCHANGED <<ctorVars, cur_cwd, popenArgs, requestedUrl,
                   port, ddb_process, child, nspawn, unpack, files,
                   cwd, archive, idx, spawned, gotResponse, exitedAtCheck,
                   sigs, handleAtCall>>

\* A mutant of InstallPlan: an existing directory is installed into again.
InstallPlanAgain(target) ==
    IF target = "file" THEN "raise" ELSE "download"

\* A mutant of InstallPlan: only os.path.exists is asked.
InstallPlanAnyTarget(target) ==
    IF target = "absent" THEN "download" ELSE "return"

\* _ensure_installed: what it does for what it finds at unpack_dir.
InstallPlan(target) ==
    IF target = "file" THEN "raise"
    ELSE IF target = "dir" THEN "return"
    ELSE "download"

\* _ensure_installed, up to os.makedirs.  os.makedirs raises OSError when
\* the directory cannot be made (its parent cannot be written).
EnsureInstalled ==
    /\ pc = "install"
    /\ javaEnv' = NoJavaEnv
    /\ LET todo == InstallPlan(unpack) IN
       IF todo = "raise"
       THEN Raise("notdir") /\ UNCHANGED unpack
       ELSE IF todo = "return"
       THEN Goto("spawn") /\ UNCHANGED unpack
       ELSE \E made \in BOOLEAN :
              IF made
              THEN unpack' = "dir" /\ Goto("download")
              ELSE Raise("makedirs") /\ UNCHANGED unpack
    /\ UNCHANGED <<ctorVars, cur_cwd, popenArgs, requestedUrl,
                   port, ddb_process, java_bin, child, nspawn,
                   files, cwd, archive, idx, spawned, gotResponse,
                   exitedAtCheck, sigs, handleAtCall>>

\* requests.get(self.source_url, stream=True) and req.raise_for_status()
Download ==
    /\ pc = "download"
    /\ requestedUrl' = source_url[cur]
    /\ \E outcome \in {"request_error", "bad_status", "ok"} :
         IF outcome = "ok"
         THEN /\ \E a \in Archives : archive' = a
              /\ Goto("chdir")
         ELSE /\ UNCHANGED archive
              /\ Raise(outcome)
    /\ UNCHANGED <<ctorVars, cur_cwd, popenArgs, javaEnv,
                   port, ddb_process, java_bin, child, nspawn, unpack,
                   files, cwd, idx, spawned, gotResponse,
                   exitedAtCheck, sigs, handleAtCall>>

\* cur_cwd = os.getcwd(); os.chdir(self.unpack_dir).  getcwd raises
\* FileNotFoundError when the working directory was removed; chdir raises
\* OSError when the directory cannot be entered.
Chdir ==
    /\ pc = "chdir"
    /\ IF cwd = DeletedCwd
       THEN /\ archive' = <<>>
            /\ UNCHANGED <<cur_cwd, cwd, idx>>
            /\ Raise("getcwd")
       ELSE /\ cur_cwd' = cwd
            /\ \E entered \in BOOLEAN :
                 IF entered
                 THEN /\ cwd' = DEFAULT_UNPACK_DIR
                      /\ idx' = 1
                      /\ UNCHANGED archive
                      /\ Goto("extract")
                 ELSE /\ archive' = <<>>
                      /\ UNCHANGED <<cwd, idx>>
                      /\ Raise("chdir")
    /\ UNCHANGED <<ctorVars, popenArgs, requestedUrl, javaEnv,
                   port, ddb_process, java_bin, child, nspawn, unpack,
                   files, spawned, gotResponse, exitedAtCheck, sigs,
                   handleAtCall>>

\* os.chdir(cur_cwd) in the finally block: the working directory after it.
\* back: the directory could be entered; when it cannot, os.chdir raises
\* OSError and the process stays where it is.
CwdAfterInstall(saved, now, back) == IF back THEN saved ELSE now

\* shutil.rmtree(self.unpack_dir, ignore_errors=True): what is left of fs
rmtree(dir, fs) == {f \in fs : ~Contains(dir, f)}

\* What shutil.rmtree(dir, ignore_errors=True) can leave of fs: the
\* directory and all below it are removed, or a removal failed, silently,
\* and the directory is left with some of what was in it.
RmtreeOutcomes(dir, fs) ==
    {[unpack |-> "absent", files |-> rmtree(dir, fs)]}
    \cup {[unpack |-> "dir", files |-> rmtree(dir, fs) \cup kept] :
             kept \in SUBSET {f \in fs : Contains(dir, f)}}

\* The finally block after a failed extraction, and the exception; written
\* is what the extraction has written by then.  An error of os.chdir(cur_cwd)
\* is raised in place of the error of the extraction, and the process stays
\* in unpack_dir, which rmtree may have removed.
ExtractFailed(kind, written) ==
    /\ archive' = <<>>
    /\ idx' = 0
    /\ \E left \in RmtreeOutcomes(abspath(cwd, DEFAULT_UNPACK_DIR), written),
          back \in BOOLEAN :
         /\ unpack' = left.unpack
         /\ files' = left.files
         /\ cwd' = LET to == CwdAfterInstall(cur_cwd, cwd, back)
                   IN IF to = DEFAULT_UNPACK_DIR /\ left.unpack = "absent"
                      THEN DeletedCwd ELSE to
         /\ IF back THEN Raise(kind) ELSE Raise("chdir_back")

\* One turn of the extraction loop: tf.next(), the path check, tf.extract;
\* after the last member the finally block and the return, or the error
\* of os.chdir(cur_cwd).
\* fault: tf.next() raises ("next", a corrupt header), tf.extract() raises
\* before it wrote anything ("open", the file cannot be created) or after
\* it wrote a part of the member ("extract", a truncated archive, a write
\* error): the part stays on disk.
Extract ==
    /\ pc = "extract"
    /\ \E fault \in {"none", "next", "open", "extract"} :
         IF fault = "next"
         THEN ExtractFailed("extract_error", files)
         ELSE IF idx > Len(archive)
         THEN /\ fault = "none"
              /\ archive' = <<>>
              /\ idx' = 0
              /\ UNCHANGED <<unpack, files>>
              /\ \E back \in BOOLEAN :
                   /\ cwd' = CwdAfterInstall(cur_cwd, cwd, back)
                   /\ IF back THEN Goto("spawn") ELSE Raise("chdir_back")
         ELSE LET member == archive[idx]
                  member_path == join(DEFAULT_UNPACK_DIR, member)
              IN IF ~is_within_directory(cwd, DEFAULT_UNPACK_DIR, member_path)
                 THEN fault = "none" /\ ExtractFailed("traversal", files)
                 ELSE IF fault = "open"
                 THEN ExtractFailed("extract_error", files)
                 ELSE IF fault = "extract"
                 THEN ExtractFailed("extract_error",
                                    files \cup {abspath(cwd, member)})
                 ELSE /\ files' = files \cup {abspath(cwd, member)}
                      /\ idx' = idx + 1
                      /\ UNCHANGED <<pc, cur, op, result, inWith, steps,
                                     elapsed, unpack, cwd, archive>>
    /\ UNCHANGED <<ctorVars, cur_cwd, popenArgs, requestedUrl, javaEnv,
                   port, ddb_process, java_bin, child, nspawn,
                   spawned, gotResponse, exitedAtCheck, sigs, handleAtCall>>

\* A path as a string.
RECURSIVE PathStr(_)
PathStr(p) == IF p = <<>> THEN "" ELSE p[1] \o PathStr(Tail(p))

\* A mutant of BuildArgs: the pass-through arguments come before the
\* storage flags.
BuildArgsExtraFirst(javaBin, portNo, inMemory, dbPath, sharedDb, extraArgs) ==
    <<javaBin, "-Djava.library.path=DynamoDBLocal_lib", "-jar",
      "DynamoDBLocal.jar", "-port", ToString(portNo)>>
    \o extraArgs
    \o (IF inMemory THEN <<"-inMemory">> ELSE <<>>)
    \o (IF dbPath # {} THEN <<"-dbPath", PathStr(CHOOSE d \in dbPath : TRUE)>>
        ELSE <<>>)
    \o (IF sharedDb THEN <<"-sharedDb">> ELSE <<>>)

\* _start_ddb_local: the argument vector.
BuildArgs(javaBin, portNo, inMemory, dbPath, sharedDb, extraArgs) ==
    LET args0 == <<javaBin, "-Djava.library.path=DynamoDBLocal_lib", "-jar",
                   "DynamoDBLocal.jar", "-port", ToString(portNo)>>
        args1 == IF inMemory THEN Append(args0, "-inMemory") ELSE args0
        args2 == IF dbPath # {}
                 THEN Append(Append(args1, "-dbPath"),
                             PathStr(CHOOSE d \in dbPath : TRUE))
                 ELSE args1
        args3 == IF sharedDb THEN Append(args2, "-sharedDb") ELSE args2
    IN args3 \o extraArgs

\* _start_ddb_local: subprocess.Popen(args, cwd=self.unpack_dir, ...).
\* Popen raises OSError when the child cannot be started (unpack_dir cannot
\* be entered, java_bin is not found from there): no child exists then and
\* self.ddb_process is not assigned.
Spawn ==
    /\ pc = "spawn"
    /\ nspawn < MaxSpawns
    /\ popenArgs' = BuildArgs(java_bin[cur], port[cur], in_memory[cur],
                              db_path[cur], shared_db[cur], extra_args[cur])
    /\ \E started \in BOOLEAN :
         IF started
         THEN LET c == nspawn + 1 IN
              /\ nspawn' = c
              /\ child' = [child EXCEPT ![c] =
                     [st |-> "starting", port |-> port[cur], term |-> FALSE,
                      kill |-> FALSE, returncode |-> FALSE, ready |-> FALSE]]
              /\ ddb_process' = [ddb_process EXCEPT ![cur] = c]
              /\ spawned' = c
              /\ Goto("retcode")
         ELSE /\ UNCHANGED <<nspawn, child, ddb_process, spawned>>
              /\ Raise("popen")
    /\ UNCHANGED <<ctorVars, cur_cwd, requestedUrl, javaEnv,
                   port, java_bin, unpack, files, cwd, archive, idx,
                   gotResponse, exitedAtCheck, sigs, handleAtCall>>

\* _start_ddb_local: if self.ddb_process.returncode is not None: raise
ReturncodeCheck ==
    /\ pc = "retcode"
    /\ exitedAtCheck' = (child[ddb_process[cur]].st = "exited")
    /\ IF child[ddb_process[cur]].returncode
       THEN Raise("failed_to_start")
       ELSE Goto("poll")
    /\ UNCHANGED <<ctorVars, cur_cwd, popenArgs, requestedUrl, javaEnv,
                   port, ddb_process, java_bin, child, nspawn, unpack,
                   files, cwd, archive, idx, spawned, gotResponse,
                   sigs, handleAtCall>>

\* A mutant of PollExhausted: leaving the loop is not an error.
PollExhaustedReturns == "ok"

\* _ensure_reachable: the statement after the while loop.
PollExhausted == "unreachable"

\* _ensure_reachable: one turn of the loop.  requests.get returns when
\* a process listening on the port answers, and raises otherwise; a failed
\* attempt takes one unit of time.
PollAttempt ==
    /\ pc = "poll"
    /\ elapsed <= DEFAULT_REACHABLE_TIMEOUT
    /\ \E answered \in BOOLEAN :
         IF answered
         THEN /\ Listening(port[cur])
              /\ gotResponse' = TRUE
              /\ child' = [child EXCEPT ![ddb_process[cur]].ready = TRUE]
              /\ Return
         ELSE /\ elapsed' = elapsed + 1
              /\ UNCHANGED <<pc, cur, op, result, inWith, steps, gotResponse,
                             child>>
    /\ UNCHANGED <<ctorVars, cur_cwd, popenArgs, requestedUrl, javaEnv,
                   port, ddb_process, java_bin, nspawn, unpack,
                   files, cwd, archive, idx, spawned, exitedAtCheck,
                   sigs, handleAtCall>>

\* _ensure_reachable: the loop ends at the deadline.
PollTimeout ==
    /\ pc = "poll"
    /\ elapsed > DEFAULT_REACHABLE_TIMEOUT
    /\ Raise(PollExhausted)
    /\ UNCHANGED <<ctorVars, cur_cwd, popenArgs, requestedUrl, javaEnv,
                   port, ddb_process, java_bin, child, nspawn, unpack,
                   files, cwd, archive, idx, spawned, gotResponse,
                   exitedAtCheck, sigs, handleAtCall>>

\* -------------------------------------------------------------------- stop
\* A mutant of GraceExpired: the kill does not wait for the grace period.
GraceExpiredAtOnce(waited) == TRUE

\* self.ddb_process.wait(timeout=DEFAULT_KILL_WAIT_TIME) raises
\* TimeoutExpired once the child has been waited for that long.
GraceExpired(waited) == waited >= DEFAULT_KILL_WAIT_TIME

\* A mutant of HandleAfterWait: the handle is kept after a graceful exit.
HandleKeptAfterWait(h) == h

\* self.ddb_process = None after wait() returned.
HandleAfterWait(h) == NoProcess

\* A mutant of HandleAfterKill: the handle is kept after the kill.
HandleKeptAfterKill(h) == h

\* self.ddb_process = None after kill().
HandleAfterKill(h) == NoProcess

\* Popen.send_signal: poll() first; the signal is sent only to a child that
\* has not been found exited.
SendSignal(c, field, name) ==
    IF child[c].st = "exited"
    THEN /\ child' = [child EXCEPT ![c].returncode = TRUE]
         /\ UNCHANGED sigs
    ELSE /\ child' = [child EXCEPT ![c][field] = TRUE]
         /\ sigs' = Append(sigs, name)

\* _shutdown_ddb_local: if self.ddb_process: self.ddb_process.terminate()
Shutdown ==
    /\ pc = "shutdown"
    /\ IF ddb_process[cur] = NoProcess
       THEN /\ Return
            /\ UNCHANGED <<child, sigs>>
       ELSE /\ SendSignal(ddb_process[cur], "term", "SIGTERM")
            /\ Goto("wait")
    /\ UNCHANGED <<ctorVars, cur_cwd, popenArgs, requestedUrl, javaEnv,
                   port, ddb_process, java_bin, nspawn, unpack,
                   files, cwd, archive, idx, spawned, gotResponse,
                   exitedAtCheck, handleAtCall>>

\* wait() returns: the child has exited.
WaitReturns ==
    /\ pc = "wait"
    /\ child[ddb_process[cur]].st = "exited"
    /\ child' = [child EXCEPT ![ddb_process[cur]].returncode = TRUE]
    /\ ddb_process' = [ddb_process EXCEPT ![cur] = HandleAfterWait(@)]
    /\ Return
    /\ UNCHANGED <<ctorVars, cur_cwd, popenArgs, requestedUrl, javaEnv,
                   port, java_bin, nspawn, unpack, files, cwd,
                   archive, idx, spawned, gotResponse, exitedAtCheck, sigs,
                   handleAtCall>>

\* Time passes in wait().
WaitTick ==
    /\ pc = "wait"
    /\ Alive(ddb_process[cur])
    /\ ~GraceExpired(elapsed)
    /\ elapsed' = elapsed + 1
    /\ UNCHANGED <<ctorVars, cur_cwd, popenArgs, requestedUrl, javaEnv,
                   port, ddb_process, java_bin, inWith, pc, cur, op, result,
                   child, nspawn, unpack, files, cwd, archive, idx,
                   steps, spawned, gotResponse, exitedAtCheck, sigs,
                   handleAtCall>>

\* wait() raises TimeoutExpired.
WaitTimeout ==
    /\ pc = "wait"
    /\ Alive(ddb_process[cur])
    /\ GraceExpired(elapsed)
    /\ Goto("kill")
    /\ UNCHANGED <<ctorVars, cur_cwd, popenArgs, requestedUrl, javaEnv,
                   port, ddb_process, java_bin, child, nspawn, unpack,
                   files, cwd, archive, idx, spawned, gotResponse,
                   exitedAtCheck, sigs, handleAtCall>>

\* except subprocess.TimeoutExpired: self.ddb_process.kill();
\* self.ddb_process = None.  kill() does not wait for the child.
Kill ==
    /\ pc = "kill"
    /\ SendSignal(ddb_process[cur], "kill", "SIGKILL")
    /\ ddb_process' = [ddb_process EXCEPT ![cur] = HandleAfterKill(@)]
    /\ Return
    /\ UNCHANGED <<ctorVars, cur_cwd, popenArgs, requestedUrl, javaEnv,
                   port, java_bin, nspawn, unpack, files, cwd,
                   archive, idx, spawned, gotResponse, exitedAtCheck,
                   handleAtCall>>

\* ------------------------------------------------------------- environment
\* A child binds its port and serves requests.
ChildListen(c) ==
    /\ child[c].st = "starting"
    /\ ~Listening(child[c].port)
    /\ child' = [child EXCEPT ![c].st = "listening"]
    /\ UNCHANGED <<ctorVars, cur_cwd, popenArgs, requestedUrl, javaEnv,
                   port, ddb_process, java_bin, inWith, pc, cur, op, result,
                   nspawn, unpack, files, cwd, archive, idx,
                   elapsed, steps, spawned, gotResponse, exitedAtCheck, sigs,
                   handleAtCall>>

\* A child exits: it rejects its arguments, cannot bind its port, crashes,
\* or dies of a signal it was sent.  No signal is pending for it any more.
ChildExit(c) ==
    /\ Alive(c)
    /\ child' = [child EXCEPT ![c].st = "exited", ![c].term = FALSE,
                              ![c].kill = FALSE]
    /\ UNCHANGED <<ctorVars, cur_cwd, popenArgs, requestedUrl, javaEnv,
                   port, ddb_process, java_bin, inWith, pc, cur, op, result,
                   nspawn, unpack, files, cwd, archive, idx,
                   elapsed, steps, spawned, gotResponse, exitedAtCheck, sigs,
                   handleAtCall>>

\* ------------------------------------------------------------ specification
Next ==
    \/ \E i \in Inst : CallStart(i)
    \/ \E i \in Inst : CallStop(i)
    \/ \E i \in Inst : WithEnter(i)
    \/ \E i \in Inst : WithExit(i)
    \/ EnsurePortFree
    \/ EnsureJavaExists
    \/ EnsureInstalled
    \/ Download
    \/ Chdir
    \/ Extract
    \/ Spawn
    \/ ReturncodeCheck
    \/ PollAttempt
    \/ PollTimeout
    \/ Shutdown
    \/ WaitReturns
    \/ WaitTick
    \/ WaitTimeout
    \/ Kill
    \/ \E c \in Pids : ChildListen(c)
    \/ \E c \in Pids : ChildExit(c)

Spec == Init /\ [][Next]_vars

\* The state before the constructor is called.
ConfInit ==
    /\ port = [i \in Inst |-> DEFAULT_PORT]
    /\ ddb_process = [i \in Inst |-> NoProcess]
    /\ java_bin = [i \in Inst |-> "None"]
    /\ inWith = [i \in Inst |-> FALSE]
    /\ pc = "idle"
    /\ cur = "a"
    /\ op = "none"
    /\ result = "ok"
    /\ child = [c \in Pids |-> NoChild]
    /\ nspawn = 0
    /\ unpack = "absent"
    /\ files = {}
    /\ cwd = OrigCwd
    /\ archive = <<>>
    /\ idx = 0
    /\ elapsed = 0
    /\ steps = <<>>
    /\ spawned = 0
    /\ gotResponse = FALSE
    /\ exitedAtCheck = FALSE
    /\ sigs = <<>>
    /\ handleAtCall = NoProcess
    /\ constructed = [i \in Inst |-> FALSE]
    /\ ConfigInit

\* A program that constructs one instance: the constructor call, once it
\* succeeded, and the steps of Next; a start is called while
\* fewer than MaxConfSpawns children were spawned.
ConfNext ==
    \/ /\ \A j \in Inst : ~constructed[j]
       /\ \E portNo \in Ports, url \in Urls, inMemory \in BOOLEAN,
             dbPath \in DbPaths, sharedDb \in BOOLEAN,
             extraArgs \in ExtraArgs :
             Construct("a", portNo, url, inMemory, dbPath, sharedDb, extraArgs)
    \/ \E i \in Inst : nspawn < MaxConfSpawns /\ CallStart(i)
    \/ \E i \in Inst : CallStop(i)
    \/ \E i \in Inst : nspawn < MaxConfSpawns /\ WithEnter(i)
    \/ \E i \in Inst : WithExit(i)
    \/ EnsurePortFree
    \/ EnsureJavaExists
    \/ EnsureInstalled
    \/ Download
    \/ Chdir
    \/ Extract
    \/ Spawn
    \/ ReturncodeCheck
    \/ PollAttempt
    \/ PollTimeout
    \/ Shutdown
    \/ WaitReturns
    \/ WaitTick
    \/ WaitTimeout
    \/ Kill
    \/ \E c \in Pids : ChildListen(c)
    \/ \E c \in Pids : ChildExit(c)

\* A program that constructs one instance with any arguments and uses it.
SpecConfigured == ConfInit /\ [][ConfNext]_vars

\* A program that gets its instances from create_new_inmemory_ddb(), at any
\* time between its calls of them, and uses them.
InMemoryNext ==
    \/ \E i \in Inst : CreateNewInmemoryDdb(i)
    \/ Next

SpecInMemory == ConfInit /\ [][InMemoryNext]_vars

TypeOK ==
    /\ pc \in {"idle", "port", "java", "install", "download", "chdir",
               "extract", "spawn", "retcode", "poll", "shutdown", "wait",
               "kill"}
    /\ ddb_process \in [Inst -> {NoProcess} \cup Pids]
    /\ nspawn \in 0..MaxSpawns
    /\ unpack \in {"absent", "dir", "file"}
    /\ cwd \in {OrigCwd, DEFAULT_UNPACK_DIR, DeletedCwd}
    /\ elapsed \in 0..(DEFAULT_KILL_WAIT_TIME + 1)

\* ------------------------------------------------------------------ claims
InSeq(x, s) == \E k \in 1..Len(s) : s[k] = x

\* A call of kind ops has ended.
Ended(ops) == pc = "idle" /\ op \in ops

\* The errors _ensure_installed raises after it created unpack_dir.
InstallErrors ==
    {"request_error", "bad_status", "chdir", "extract_error", "traversal",
     "chdir_back"}

\* C1: when start raises inside __enter__ after the child process was
\* created, stop has run by the time the error has propagated: the child
\* has been terminated and the process handle is cleared.
C1_StopRunsWhenEnterFails ==
    (Ended({"enter"}) /\ result # "ok" /\ spawned # 0)
        => /\ ddb_process[cur] = NoProcess
           /\ ~Alive(spawned)

\* C2: when an install that began on an absent unpack_dir fails, at any
\* stage, unpack_dir does not exist once the error has propagated.
C2_FailedInstallLeavesNoDir ==
    (Ended(StartOps) /\ result \in InstallErrors) => unpack = "absent"

\* C3: extraction never writes a path outside unpack_dir: every path
\* written is unpack_dir or one of its descendants.
C3_NoWriteOutside ==
    \A f \in files : Contains(DEFAULT_UNPACK_DIR, f)

\* C4: a start on a port that is bound fails with the port error at its
\* first step: nothing but the port check has run, no download, no install,
\* no runtime discovery and no spawn happen, and the children and the
\* handles of all instances are as they were.
C4_BoundPortFailsFast ==
    /\ [](result = "port" => steps = <<"port">>)
    /\ [][(pc = "port" /\ pc' # pc /\ Listening(port[cur]))
            => /\ pc' = "idle"
               /\ result' = "port"
               /\ UNCHANGED <<child, nspawn, ddb_process, java_bin, unpack,
                              files, cwd, archive>>]_vars

\* C4 witness: a start has failed with the port error while the other
\* instance holds a listening child on the same port.
C4_Witness ==
    /\ Ended(StartOps)
    /\ result = "port"
    /\ \E j \in Inst \ {cur} :
         /\ port[j] = port[cur]
         /\ ddb_process[j] # NoProcess
         /\ child[ddb_process[j]].st = "listening"

\* C5: a start whose child had already exited when start looked at it fails
\* with an error and leaves no process handle.
C5_NoHandleAfterChildExitedAtOnce ==
    (Ended(StartOps) /\ spawned # 0 /\ exitedAtCheck)
        => /\ result # "ok"
           /\ ddb_process[cur] = NoProcess

\* C6: when the child has exited by the time of the check that follows the
\* spawn, start raises the failed-to-start error there and never enters
\* the readiness wait.
C6_ExitedChildFailsAtCheck ==
    exitedAtCheck
        => /\ pc = "idle"
           /\ result = "failed_to_start"
           /\ ~InSeq("poll", steps)

\* C7: start returns normally only if a GET of its readiness poll got a
\* response; a start that reached the poll and got no response raises the
\* never-became-reachable error, and only such a start raises it.
C7_RunningOnlyAfterResponse ==
    /\ (Ended(StartOps) /\ result = "ok") => gotResponse
    /\ (Ended(StartOps) /\ InSeq("poll", steps) /\ ~gotResponse)
           => result = "unreachable"
    /\ result = "unreachable" => (InSeq("poll", steps) /\ ~gotResponse)

\* C7 witness: a start returned normally after a GET got a response.
C7_Witness ==
    /\ Ended(StartOps)
    /\ result = "ok"
    /\ gotResponse
    /\ spawned # 0

\* C8: a stop that finds a handle sends SIGTERM first (to a child that has
\* not exited); SIGKILL is sent only after SIGTERM, only when the grace
\* period has passed and the child has still not exited; and on both paths
\* stop returns without error with the handle cleared.
C8_TermThenKill ==
    [][/\ (pc = "shutdown" /\ pc' # pc /\ ddb_process[cur] # NoProcess
             /\ Alive(ddb_process[cur]))
            => sigs' = <<"SIGTERM">>
       /\ sigs' = Append(sigs, "SIGKILL")
            => /\ sigs = <<"SIGTERM">>
               /\ elapsed >= DEFAULT_KILL_WAIT_TIME
               /\ Alive(ddb_process[cur])
       /\ (pc # "idle" /\ pc' = "idle" /\ op \in StopOps
             /\ handleAtCall # NoProcess)
            => /\ result' = "ok"
               /\ ddb_process'[cur] = NoProcess
               /\ sigs' \in {<<>>, <<"SIGTERM">>, <<"SIGTERM", "SIGKILL">>}
      ]_vars

\* C8 witness: a stop has ended on the forced-kill path.
C8_Witness ==
    /\ Ended(StopOps)
    /\ handleAtCall # NoProcess
    /\ sigs = <<"SIGTERM", "SIGKILL">>
    /\ ddb_process[cur] = NoProcess
    /\ result = "ok"

\* C9: stop without a handle returns without error and changes nothing;
\* every stop returns without error and leaves no handle, so that a second
\* stop is a stop without a handle; and a stop with a handle, be it after
\* a start that failed after the spawn, leaves its child exited or with
\* SIGKILL sent to it.
C9_StopIsSafe ==
    [][/\ (pc = "shutdown" /\ pc' # pc /\ ddb_process[cur] = NoProcess)
            => /\ pc' = "idle"
               /\ result' = "ok"
               /\ UNCHANGED <<ddb_process, child, nspawn, java_bin, unpack,
                              files, cwd, sigs>>
       /\ (pc # "idle" /\ pc' = "idle" /\ op \in StopOps)
            => /\ result' = "ok"
               /\ ddb_process'[cur] = NoProcess
               /\ handleAtCall # NoProcess
                    => \/ child'[handleAtCall].st = "exited"
                       \/ child'[handleAtCall].kill
      ]_vars

\* C9 witness: a stop has ended that was called after a start that failed
\* after the spawn: it found the handle of a child that never got ready.
C9_Witness ==
    /\ Ended(StopOps)
    /\ handleAtCall # NoProcess
    /\ ~child[handleAtCall].ready
    /\ ddb_process[cur] = NoProcess
    /\ result = "ok"

\* C10: once a stop that follows a successful start has returned, the
\* child spawned by that start is no longer running.
C10_ChildGoneAfterStop ==
    (Ended(StopOps) /\ handleAtCall # NoProcess /\ child[handleAtCall].ready)
        => ~Alive(handleAtCall)

\* C11: a construction with in_memory set and a db_path given, the empty
\* string included, fails with an error whatever the other arguments are,
\* and no instance is obtained.
C11_ConflictAlwaysFails ==
    (ctor.result # "none" /\ ctor.in_memory /\ ctor.db_path # {})
        => /\ ctor.result \in {"conflict", "file_exists", "makedirs_error",
                            "getcwd_error"}
           /\ ~constructed[ctor.inst]

\* C11 witness: LocalDynamoDB(in_memory=True, db_path="") was rejected for
\* the conflict.
C11_Witness ==
    /\ ctor.in_memory
    /\ ctor.db_path = {<<>>}
    /\ ctor.result = "conflict"

\* C12: when unpack_dir exists as a directory, _ensure_installed returns at
\* once: start goes on to the spawn, no download is requested, nothing is
\* extracted, and the directory, its contents and the working directory
\* are as they were, whatever the directory holds.
C12_ExistingDirIsPresenceCheck ==
    [][(pc = "install" /\ unpack = "dir" /\ pc' # pc)
          => /\ pc' = "spawn"
             /\ requestedUrl' = ""
             /\ UNCHANGED <<unpack, files, cwd, archive, idx>>]_vars

\* C12 witness: a start found an empty unpack_dir and went on to the spawn
\* without a download.
C12_Witness ==
    /\ pc = "spawn"
    /\ steps = <<"port", "java", "install", "spawn">>
    /\ unpack = "dir"
    /\ files = {}
    /\ requestedUrl = ""

\* C13: when unpack_dir is a file that is not a directory, _ensure_installed
\* raises: the file stays, no directory is created, no download is
\* requested, and no start ever spawns a child.
C13_FileTargetFails ==
    /\ [](unpack = "file" => nspawn = 0 /\ \A c \in Pids : child[c].st = "none")
    /\ [][(pc = "install" /\ unpack = "file" /\ pc' # pc)
            => /\ pc' = "idle"
               /\ result' = "notdir"
               /\ requestedUrl' = ""
               /\ UNCHANGED <<unpack, files, cwd, archive, idx, child,
                              nspawn, ddb_process>>]_vars

\* C13 witness: a start has failed at the install because unpack_dir is a
\* file.
C13_Witness ==
    /\ Ended(StartOps)
    /\ result = "notdir"
    /\ unpack = "file"
    /\ steps = <<"port", "java", "install">>

\* C14: when JAVA_HOME is set and its java answers -version, that java is
\* adopted and `java` of the PATH is not tried; when JAVA_HOME is set and
\* its java fails, the PATH is tried next; the discovery raises exactly when
\* the java of the PATH fails and no java of JAVA_HOME succeeded, and then
\* start has run nothing after the discovery: no install, no spawn.
C14_JavaDiscovery ==
    javaEnv.tried # <<>> =>
        /\ javaEnv.javaHome = "good"
              => /\ pc = "install"
                 /\ java_bin[cur] = "JAVA_HOME/bin/java"
                 /\ ~InSeq("PATH", javaEnv.tried)
        /\ (javaEnv.javaHome = "bad" /\ javaEnv.pathJava)
              => /\ pc = "install"
                 /\ java_bin[cur] = "java"
                 /\ javaEnv.tried = <<"JAVA_HOME", "PATH">>
        /\ (javaEnv.javaHome = "unset" /\ javaEnv.pathJava)
              => /\ pc = "install"
                 /\ java_bin[cur] = "java"
        /\ (pc = "idle" /\ result = "java")
              <=> (~javaEnv.pathJava /\ javaEnv.javaHome # "good")
        /\ result = "java"
              => /\ steps = <<"port", "java">>
                 /\ spawned = 0
                 /\ requestedUrl = ""
                 /\ popenArgs = <<>>

\* C14 witness: JAVA_HOME was set, its java failed, and the java of the
\* PATH was adopted.
C14_Witness ==
    /\ pc = "install"
    /\ javaEnv.javaHome = "bad"
    /\ javaEnv.pathJava
    /\ java_bin[cur] = "java"

\* C15: the argument vector given to Popen is the java found, the
\* library-path flag, -jar, the jar, -port and the port, then -inMemory iff
\* in_memory, then -dbPath and the path iff db_path is set, then -sharedDb
\* iff shared_db, then extra_args in their order; ahead of extra_args it
\* never holds both -inMemory and -dbPath.
C15_ArgumentVector ==
    popenArgs # <<>> =>
        LET own == SubSeq(popenArgs, 1, Len(popenArgs) - Len(extra_args[cur]))
        IN /\ popenArgs =
                <<java_bin[cur], "-Djava.library.path=DynamoDBLocal_lib",
                  "-jar", "DynamoDBLocal.jar", "-port", ToString(port[cur])>>
                \o (IF in_memory[cur] THEN <<"-inMemory">> ELSE <<>>)
                \o (IF db_path[cur] = {} THEN <<>>
                    ELSE <<"-dbPath", PathStr(CHOOSE d \in db_path[cur] : TRUE)>>)
                \o (IF shared_db[cur] THEN <<"-sharedDb">> ELSE <<>>)
                \o extra_args[cur]
           /\ ~(InSeq("-inMemory", own) /\ InSeq("-dbPath", own))

\* C15 witness: an instance constructed with db_path="p", shared_db=True
\* and extra_args=["-cors", "*"] in /w has spawned its child.
C15_Witness ==
    popenArgs = <<"java", "-Djava.library.path=DynamoDBLocal_lib", "-jar",
                  "DynamoDBLocal.jar", "-port", "8000", "-dbPath", "/w/p",
                  "-sharedDb", "-cors", "*">>

\* C16: a construction with a db_path at which a file exists fails with an
\* error, and no constructed instance has a db_path that is a file.
C16_FileDbPathFailsAtConstruction ==
    /\ (ctor.result # "none" /\ \E d \in ctor.db_path : IsFile(d))
          => /\ ctor.result \in {"file_exists", "makedirs_error",
                              "getcwd_error"}
             /\ ~constructed[ctor.inst]
    /\ \A i \in Inst : constructed[i] => \A d \in db_path[i] : ~IsFile(d)

\* C16 witness: LocalDynamoDB(db_path="f") was rejected because a file is
\* at the path.
C16_Witness ==
    /\ ctor.db_path = {<<"f">>}
    /\ ~ctor.in_memory
    /\ ctor.result = "file_exists"

\* C17: after any start and stop calls every live child is the one the
\* handle of an instance refers to (a child that was sent SIGKILL and has
\* not exited yet is not counted).
C17_LiveChildHasHandle ==
    pc = "idle" =>
        \A c \in Pids :
            (Alive(c) /\ ~child[c].kill) => \E i \in Inst : ddb_process[i] = c

\* C18: the URL _ensure_installed requests is the source_url given to the
\* constructor.
C18_DownloadsFromSourceUrl ==
    requestedUrl # "" => requestedUrl = urlArg[cur]

\* C19: whenever _ensure_installed has returned or raised, on any of its
\* paths, the working directory is the one it was called in: a step that
\* ends the install before the extraction leaves the working directory as
\* it is, and the step that ends the extraction puts the process back in
\* the directory os.getcwd() gave before unpack_dir was entered.
C19_InstallLeavesCwd ==
    [][/\ (pc \in {"install", "download", "chdir"} /\ pc' # pc
             /\ pc' # "extract") => cwd' = cwd
       /\ (pc = "extract" /\ pc' # "extract") => cwd' = cur_cwd]_vars

\* C20: a construction rejected because in_memory and db_path are both
\* given leaves the filesystem as it was: the db_path directory is not
\* created.
C20_RejectedConstructionHasNoEffect ==
    ctor.result = "conflict" => dbdirs = ctor.dirsBefore

====
